---- MODULE Spec2Model ----
(***************************************************************************)
(* Model of hyacinth's ListingNotifier (src/hyacinth/notifier.py): the     *)
(* poll / filter / deliver cycle run by the scheduler, its watermark       *)
(* bookkeeping, and the flush it performs when the task is cancelled.      *)
(***************************************************************************)
EXTENDS Integers, Sequences, FiniteSets, TLC

\* ---------------------------------------------------------------- bounds
MaxSearches == 2    \* at most this many active searches
MaxFetched == 2     \* one run fetches at most this many listings over all searches

Times == 0..2
InitialWatermarks == {0}
Specs == {"a"}
Prices == {1, 2}
FilterFields == {"price", "mileage"}
Predicates == {"low", "bad"}

\* ------------------------------------------------------------- data model
\* hyacinth.models.Listing, reduced to the fields the notifier reads.
\* Equality is by value, as for a pydantic model.
Listing ==
    {l \in [created_at : Times \ {0}, updated_at : Times \ {0}, price : Prices] :
        l.created_at <= l.updated_at}

\* The attributes a Listing object has (hasattr is true exactly for these).
ListingAttrs == {"price"}

HasAttr(listing, field) == field \in ListingAttrs

GetAttr(listing, field) == listing.price

\* hyacinth.filters.Filter.test: accepts, rejects, or raises on a broken rule.
Test(pred, value) ==
    CASE pred = "low"  -> IF value <= 1 THEN "T" ELSE "F"
      [] OTHER         -> "raise"

\* ListingNotifier.Config.filters: a dict, iterated in insertion order,
\* with one entry per field.
FilterEntry == [field : FilterFields, filter : Predicates]

FilterDicts ==
    {<<>>} \cup {<<e>> : e \in FilterEntry}
           \cup {p \in FilterEntry \X FilterEntry : p[1].field # p[2].field}

ActiveSearch == [spec : Specs, last_notified : Times]

\* ----------------------------------------------------------- pure helpers
\* Variant: a filter on a field the listing lacks rejects the listing.
RECURSIVE ShouldNotifyAbsentRejects(_, _, _)
ShouldNotifyAbsentRejects(fs, listing, k) ==
    IF k > Len(fs) THEN "yes"
    ELSE IF ~HasAttr(listing, fs[k].field) THEN "no"
    ELSE LET r == Test(fs[k].filter, GetAttr(listing, fs[k].field)) IN
         IF r = "raise" THEN "raise"
         ELSE IF r = "F" THEN "no"
         ELSE ShouldNotifyAbsentRejects(fs, listing, k + 1)

RECURSIVE ShouldNotifyFrom(_, _, _)
ShouldNotifyFrom(fs, listing, k) ==
    IF k > Len(fs) THEN "yes"
    ELSE IF ~HasAttr(listing, fs[k].field) THEN ShouldNotifyFrom(fs, listing, k + 1)
    ELSE LET r == Test(fs[k].filter, GetAttr(listing, fs[k].field)) IN
         IF r = "raise" THEN "raise"
         ELSE IF r = "F" THEN "no"
         ELSE ShouldNotifyFrom(fs, listing, k + 1)

\* should_notify_listing: "yes" (True), "no" (False) or "raise" (the
\* exception of a filter's test() propagates).
should_notify_listing(fs, listing) == ShouldNotifyFrom(fs, listing, 1)

\* list.sort(key=updated_at): a stable sort.
RECURSIVE InsertByUpdated(_, _)
InsertByUpdated(sorted, l) ==
    IF sorted = <<>> THEN <<l>>
    ELSE IF sorted[Len(sorted)].updated_at <= l.updated_at THEN Append(sorted, l)
    ELSE Append(InsertByUpdated(SubSeq(sorted, 1, Len(sorted) - 1), l), sorted[Len(sorted)])

\* Variant: the combined list is left in fetch order.
NoSort(s) == s

RECURSIVE SortByUpdated(_)
SortByUpdated(s) ==
    IF s = <<>> THEN <<>>
    ELSE InsertByUpdated(SortByUpdated(SubSeq(s, 1, Len(s) - 1)), s[Len(s)])

\* Variant: the last element is dropped instead of the one delivered.
RemoveLast(s, x) == IF s = <<>> THEN <<>> ELSE SubSeq(s, 1, Len(s) - 1)

\* list.remove(x): drops the first element equal to x.
RECURSIVE Remove(_, _)
Remove(s, x) ==
    IF s = <<>> THEN <<>>
    ELSE IF Head(s) = x THEN Tail(s)
    ELSE <<Head(s)>> \o Remove(Tail(s), x)

\* Variant: nothing is filtered out.
KeepAll(fs, ls) == ls

\* list(filter(self.should_notify_listing, listings))
FilterRaises(fs, ls) == \E i \in 1..Len(ls) : should_notify_listing(fs, ls[i]) = "raise"

FilterListings(fs, ls) == SelectSeq(ls, LAMBDA l : should_notify_listing(fs, l) = "yes")

\* MarketplaceMonitor.get_listings(spec, after_time): the listings created
\* after after_time, newest first.
SourceResults(after, room) ==
    {b \in UNION {[1..n -> Listing] : n \in 0..room} :
        /\ \A i \in 1..Len(b) : b[i].created_at > after
        /\ \A i, j \in 1..Len(b) : i < j => (b[i] # b[j] /\ b[i].created_at >= b[j].created_at)}

\* ListingNotifier.Config.active_searches of the config given to __init__.
ConfigSearches ==
    {<<>>} \cup {<<[spec |-> s, last_notified |-> t]>> : s \in Specs, t \in InitialWatermarks}

\* MarketplaceMonitor.register_search / remove_search: registration
\* bookkeeping, idempotent.
RegisterSearch(reg, search_spec) == reg \cup {search_spec}

RemoveSearch(reg, search_spec) == reg \ {search_spec}

\* for search in active_searches: register_search(search.spec)
RECURSIVE RegisterAll(_, _)
RegisterAll(reg, active_searches) ==
    IF active_searches = <<>> THEN reg
    ELSE RegisterAll(RegisterSearch(reg, Head(active_searches).spec), Tail(active_searches))

\* Variant: teardown leaves the first search registered.
RemoveAllButFirst(reg, active_searches) ==
    reg \ {active_searches[i].spec : i \in 2..Len(active_searches)}

\* cleanup: for search in active_searches: remove_search(search.spec)
RECURSIVE RemoveAll(_, _)
RemoveAll(reg, active_searches) ==
    IF active_searches = <<>> THEN reg
    ELSE RemoveAll(RemoveSearch(reg, Head(active_searches).spec), Tail(active_searches))

\* ------------------------------------------------------------------ state
VARIABLES
    searches,           \* config.active_searches
    filters,            \* config.filters
    paused,             \* config.paused
    jobPaused,          \* the scheduler's job is suspended
    pc,                 \* where _notify_new_listings is suspended: idle / fetch / deliver / flush
    fetchIdx,           \* position of the loop over active_searches
    listings,           \* the local list `listings`
    not_yet_notified_listings,
    idx,                \* position of the delivery loop, or of the flush loop
    sink,               \* the listings the sink has sent in the current run, in order
    fetched,            \* every listing get_listings returned in the current run
    outcome,            \* how the last run ended: none / returned / cancelled / error
    endedIn,            \* the phase in which the last run ended
    cancels,            \* cancellations thrown into the current run
    saved,              \* save_notifier was called in the current run
    delivered,          \* notify calls of the delivery loop that returned in the current run
    removed,            \* the scheduler no longer has the job (remove_job was called)
    registered,         \* the specs registered with the monitor
    raised,             \* which call raised, if the last call to the engine did:
                        \* none / pause / unpause / cleanup
    botPc,              \* where the bot's unpause command is suspended: idle / confirm
    reply               \* what the bot has answered to the last unpause command

vars == <<searches, filters, paused, jobPaused, pc, fetchIdx, listings,
          not_yet_notified_listings, idx, sink, fetched, outcome,
          endedIn, cancels, saved, delivered, removed, registered, raised,
          botPc, reply>>

\* Variant: the constructor leaves the job of a paused config running.
JobLeftRunning(config_paused) == FALSE

\* __init__: add_job(..., next_run_time=now), then pause_job when the config
\* is paused; nothing runs in between.  TRUE when the job is suspended.
JobSuspendedAtInit(config_paused) == config_paused

\* ListingNotifier.__init__: the config comes with or without a search; every
\* search it has is registered with the monitor.
Init ==
    /\ searches \in ConfigSearches
    /\ filters \in FilterDicts
    /\ paused \in BOOLEAN
    /\ jobPaused = JobSuspendedAtInit(paused)
    /\ removed = FALSE
    /\ registered = RegisterAll({}, searches)
    /\ raised = "none"
    /\ botPc = "idle"
    /\ reply = "none"
    /\ pc = "idle"
    /\ fetchIdx = 0
    /\ listings = <<>>
    /\ not_yet_notified_listings = <<>>
    /\ idx = 0
    /\ sink = <<>>
    /\ fetched = <<>>
    /\ outcome = "none"
    /\ endedIn = "none"
    /\ cancels = 0
    /\ saved = FALSE
    /\ delivered = 0

\* ------------------------------------------------------ external commands
\* The calls below run between two awaits of a run in flight, or between runs.

\* The scheduler's pause_job, resume_job and remove_job raise JobLookupError
\* for a job the scheduler does not have (any more).
JobLookupError(job_removed) == job_removed

create_search(search_spec, last_notified) ==
    /\ Len(searches) < MaxSearches
    /\ searches' = Append(searches, [spec |-> search_spec, last_notified |-> last_notified])
    /\ registered' = RegisterSearch(registered, search_spec)
    /\ raised' = "none"
    /\ UNCHANGED <<filters, paused, jobPaused, pc, fetchIdx, listings,
                   not_yet_notified_listings, idx, sink, fetched,
                   outcome, endedIn, cancels, saved, delivered, removed, botPc, reply>>

pause ==
    /\ paused' = TRUE
    /\ IF JobLookupError(removed)
       THEN raised' = "pause" /\ UNCHANGED jobPaused
       ELSE raised' = "none" /\ jobPaused' = TRUE
    /\ UNCHANGED <<searches, filters, pc, fetchIdx, listings,
                   not_yet_notified_listings, idx, sink, fetched,
                   outcome, endedIn, cancels, saved, delivered, removed, registered,
                   botPc, reply>>

\* Variant: the flag is cleared but the job is not resumed.
unpause_flag_only ==
    /\ paused' = FALSE
    /\ raised' = "none"
    /\ UNCHANGED jobPaused

\* ListingNotifier.unpause: what the call changes.
unpause_call ==
    /\ paused' = FALSE
    /\ IF JobLookupError(removed)
       THEN raised' = "unpause" /\ UNCHANGED jobPaused
       ELSE raised' = "none" /\ jobPaused' = FALSE

\* Variant: unpause schedules the job anew when the scheduler has lost it.
unpause_adds_job ==
    /\ paused' = FALSE
    /\ raised' = "none"
    /\ jobPaused' = FALSE
    /\ removed' = FALSE
    /\ UNCHANGED <<searches, filters, pc, fetchIdx, listings,
                   not_yet_notified_listings, idx, sink, fetched,
                   outcome, endedIn, cancels, saved, delivered, registered,
                   botPc, reply>>

unpause ==
    /\ unpause_call
    /\ UNCHANGED <<searches, filters, pc, fetchIdx, listings,
                   not_yet_notified_listings, idx, sink, fetched,
                   outcome, endedIn, cancels, saved, delivered, removed, registered,
                   botPc, reply>>

\* cleanup: remove_job, then remove_search for every active search.  On an
\* engine already torn down remove_job raises before the loop is reached.
cleanup ==
    /\ IF JobLookupError(removed)
       THEN raised' = "cleanup" /\ UNCHANGED <<removed, jobPaused, registered>>
       ELSE /\ raised' = "none"
            /\ removed' = TRUE
            /\ jobPaused' = FALSE
            /\ registered' = RemoveAll(registered, searches)
    /\ UNCHANGED <<searches, filters, paused, pc, fetchIdx, listings,
                   not_yet_notified_listings, idx, sink, fetched,
                   outcome, endedIn, cancels, saved, delivered, botPc, reply>>

\* ------------------------------------------------- the bot's chat command
\* DiscordNotifierBot.notifiers: the engine is the notifier of channel 1.
Channels == {1, 2}

NotifierChannels == {1}

\* check_notifier_exists
NotifierExists(channel) == channel \in NotifierChannels

\* The 'unpause' / 'start' command arrives on a channel.  Without a notifier
\* there, check_notifier_exists answers and the handler returns; otherwise the
\* handler runs up to the await of the confirmation's send.
UnpauseCommand(channel) ==
    /\ botPc = "idle"
    /\ IF NotifierExists(channel)
       THEN botPc' = "confirm" /\ reply' = "none"
       ELSE botPc' = "idle" /\ reply' = "sorry"
    /\ UNCHANGED <<searches, filters, paused, jobPaused, pc, fetchIdx, listings,
                   not_yet_notified_listings, idx, sink, fetched,
                   outcome, endedIn, cancels, saved, delivered, removed, registered,
                   raised>>

\* Variant: the send is not awaited, so the confirmation never leaves.
ConfirmNotAwaited ==
    /\ botPc = "confirm"
    /\ botPc' = "idle"
    /\ reply' = "none"
    /\ unpause_call
    /\ UNCHANGED <<searches, filters, pc, fetchIdx, listings,
                   not_yet_notified_listings, idx, sink, fetched,
                   outcome, endedIn, cancels, saved, delivered, removed, registered>>

\* The send of the confirmation returns: the message is in the channel, and
\* the handler goes on to notifier.unpause().
ConfirmSent ==
    /\ botPc = "confirm"
    /\ botPc' = "idle"
    /\ reply' = "resumed"
    /\ unpause_call
    /\ UNCHANGED <<searches, filters, pc, fetchIdx, listings,
                   not_yet_notified_listings, idx, sink, fetched,
                   outcome, endedIn, cancels, saved, delivered, removed, registered>>

\* The send raises (or the handler is cancelled in it): unpause() is not reached.
ConfirmFail ==
    /\ botPc = "confirm"
    /\ botPc' = "idle"
    /\ reply' = "failed"
    /\ UNCHANGED <<searches, filters, paused, jobPaused, pc, fetchIdx, listings,
                   not_yet_notified_listings, idx, sink, fetched,
                   outcome, endedIn, cancels, saved, delivered, removed, registered,
                   raised>>

\* -------------------------------------------------------- the poll cycle
\* The run ends: the coroutine returns or an exception leaves it.
Finish(how, phase) ==
    /\ pc' = "idle"
    /\ outcome' = how
    /\ endedIn' = phase
    /\ fetchIdx' = 0
    /\ listings' = <<>>
    /\ not_yet_notified_listings' = <<>>
    /\ idx' = 0

\* Variant: the watermark falls back to the epoch when a poll finds nothing.
UpdatedSearchNoGuard(search, new_listings) ==
    [search EXCEPT !.last_notified =
        IF new_listings # <<>> THEN new_listings[1].created_at ELSE 0]

\* Variant: the watermark is taken from the last listing of the batch.
UpdatedSearchOldest(search, new_listings) ==
    IF new_listings # <<>>
    THEN [search EXCEPT !.last_notified = new_listings[Len(new_listings)].created_at]
    ELSE search

\* _get_new_listings_for_search: the search after a call that returned new_listings.
UpdatedSearch(search, new_listings) ==
    IF new_listings # <<>>
    THEN [search EXCEPT !.last_notified = new_listings[1].created_at]
    ELSE search

\* _get_new_listings after its loop: save when something was found, then sort.
ShouldSave(all) == all # <<>>

\* The rest of _get_new_listings and of _notify_new_listings up to the first
\* await of the delivery loop, run once the loop over the searches is over.
AfterFetch(all) ==
    LET sorted == SortByUpdated(all)
        kept == FilterListings(filters, sorted)
    IN  /\ saved' = ShouldSave(all)
        /\ IF all = <<>>
           THEN Finish("returned", "fetch")
           ELSE IF FilterRaises(filters, sorted)
           THEN Finish("error", "filter")
           ELSE IF kept = <<>>
           THEN Finish("returned", "deliver")
           ELSE /\ listings' = kept
                /\ not_yet_notified_listings' = kept
                /\ pc' = "deliver"
                /\ idx' = 1
                /\ fetchIdx' = 0
                /\ UNCHANGED <<outcome, endedIn>>

\* Variant: the handler skips the listing whose delivery was in flight.
FlushTargetsSkipFirst(pending) == IF pending = <<>> THEN <<>> ELSE Tail(pending)

\* The handler of asyncio.CancelledError iterates not_yet_notified_listings ...
FlushTargets(pending) == pending

\* Variant: the handler ends without re-raising.
HandlerSwallows == "returned"

\* ... and ends with a bare `raise`: the CancelledError goes on to the caller.
HandlerOutcome == "cancelled"

\* The scheduler fires the job: _notify_new_listings runs up to its first await.
TickStart ==
    /\ pc = "idle"
    /\ ~removed
    /\ ~jobPaused
    /\ sink' = <<>>
    /\ fetched' = <<>>
    /\ cancels' = 0
    /\ IF searches = <<>>
       THEN AfterFetch(<<>>)
       ELSE /\ pc' = "fetch"
            /\ fetchIdx' = 1
            /\ outcome' = "none"
            /\ endedIn' = "none"
            /\ saved' = FALSE
            /\ UNCHANGED <<listings, not_yet_notified_listings, idx>>
    /\ delivered' = 0
    /\ UNCHANGED <<searches, filters, paused, jobPaused, removed, registered, raised,
                   botPc, reply>>

\* await self.monitor.get_listings(...) returns for the search at fetchIdx.
FetchReturn ==
    /\ pc = "fetch"
    /\ \E new_listings \in SourceResults(searches[fetchIdx].last_notified,
                                         MaxFetched - Len(fetched)) :
        /\ searches' = [searches EXCEPT ![fetchIdx] = UpdatedSearch(@, new_listings)]
        /\ fetched' = fetched \o new_listings
        /\ IF fetchIdx < Len(searches)
           THEN /\ listings' = listings \o new_listings
                /\ fetchIdx' = fetchIdx + 1
                /\ UNCHANGED <<not_yet_notified_listings, idx, pc, outcome, endedIn, saved>>
           ELSE AfterFetch(listings \o new_listings)
    /\ UNCHANGED <<filters, paused, jobPaused, removed, registered, raised, botPc, reply,
                   sink, cancels, delivered>>

\* get_listings raises: nothing in the run catches it.
FetchFail ==
    /\ pc = "fetch"
    /\ Finish("error", "fetch")
    /\ UNCHANGED <<searches, filters, paused, jobPaused, removed, registered, raised,
                   botPc, reply, sink, fetched, cancels, saved, delivered>>

\* The task is cancelled while it awaits get_listings: the handler finds
\* nothing in not_yet_notified_listings and re-raises.
CancelFetch ==
    /\ pc = "fetch"
    /\ cancels' = cancels + 1
    /\ Finish(HandlerOutcome, "fetch")
    /\ UNCHANGED <<searches, filters, paused, jobPaused, removed, registered, raised,
                   botPc, reply, sink, fetched, saved, delivered>>

\* await self.notify(listing) returns in the delivery loop.
NotifyOk ==
    /\ pc = "deliver"
    /\ sink' = Append(sink, listings[idx])
    /\ IF idx = Len(listings)
       THEN Finish("returned", "deliver")
       ELSE /\ idx' = idx + 1
            /\ not_yet_notified_listings' = Remove(not_yet_notified_listings, listings[idx])
            /\ UNCHANGED <<pc, outcome, endedIn, fetchIdx, listings>>
    /\ delivered' = delivered + 1
    /\ UNCHANGED <<searches, filters, paused, jobPaused, removed, registered, raised,
                   botPc, reply, fetched, cancels, saved>>

\* Variant: a failed delivery puts the watermarks back so that the next poll
\* finds the listings again.
NotifyFailRewinds ==
    /\ pc = "deliver"
    /\ Finish("error", "deliver")
    /\ searches' = [i \in 1..Len(searches) |-> [searches[i] EXCEPT !.last_notified = 0]]
    /\ UNCHANGED <<filters, paused, jobPaused, removed, registered, raised, botPc, reply,
                   sink, fetched, cancels, saved, delivered>>

\* notify raises in the delivery loop.
NotifyFail ==
    /\ pc = "deliver"
    /\ Finish("error", "deliver")
    /\ UNCHANGED <<searches, filters, paused, jobPaused, removed, registered, raised,
                   botPc, reply, sink, fetched, cancels, saved, delivered>>

\* The task is cancelled while notify(listings[idx]) is in flight; the
\* message may or may not have left already.  The handler starts the flush.
CancelDeliver ==
    /\ pc = "deliver"
    /\ \E sent \in BOOLEAN :
        sink' = IF sent THEN Append(sink, listings[idx]) ELSE sink
    /\ cancels' = cancels + 1
    /\ IF FlushTargets(not_yet_notified_listings) = <<>>
       THEN Finish(HandlerOutcome, "flush")
       ELSE /\ pc' = "flush"
            /\ idx' = 1
            /\ UNCHANGED <<fetchIdx, listings, not_yet_notified_listings, outcome, endedIn>>
    /\ UNCHANGED <<searches, filters, paused, jobPaused, removed, registered, raised,
                   botPc, reply, fetched, saved, delivered>>

\* await self.notify(listing) returns in the flush loop of the handler.
FlushOk ==
    /\ pc = "flush"
    /\ sink' = Append(sink, FlushTargets(not_yet_notified_listings)[idx])
    /\ IF idx = Len(FlushTargets(not_yet_notified_listings))
       THEN Finish(HandlerOutcome, "flush")
       ELSE idx' = idx + 1 /\ UNCHANGED <<pc, outcome, endedIn, fetchIdx, listings,
                                          not_yet_notified_listings>>
    /\ UNCHANGED <<searches, filters, paused, jobPaused, removed, registered, raised,
                   botPc, reply, fetched, cancels, saved, delivered>>

\* notify raises in the flush loop: its exception leaves the handler.
FlushFail ==
    /\ pc = "flush"
    /\ Finish("error", "flush")
    /\ UNCHANGED <<searches, filters, paused, jobPaused, removed, registered, raised,
                   botPc, reply, sink, fetched, cancels, saved, delivered>>

\* The task is cancelled again while the flush awaits notify.
CancelFlush ==
    /\ pc = "flush"
    /\ \E sent \in BOOLEAN :
        sink' = IF sent THEN Append(sink, FlushTargets(not_yet_notified_listings)[idx]) ELSE sink
    /\ cancels' = cancels + 1
    /\ Finish("cancelled", "flush")
    /\ UNCHANGED <<searches, filters, paused, jobPaused, removed, registered, raised,
                   botPc, reply, fetched, saved, delivered>>

Next ==
    \/ \E s \in Specs, t \in InitialWatermarks : create_search(s, t)
    \/ pause
    \/ unpause
    \/ TickStart
    \/ FetchReturn
    \/ FetchFail
    \/ CancelFetch
    \/ NotifyOk
    \/ NotifyFail
    \/ CancelDeliver
    \/ FlushOk
    \/ FlushFail
    \/ CancelFlush

\* An engine that is scheduled for good: its poll cycle, with the calls that
\* configure it.
Spec == Init /\ [][Next]_vars

\* The whole life of the engine, teardown included; the config has no filter.
InitNoFilters == Init /\ filters = <<>>

NextLife ==
    \/ Next
    \/ cleanup

LifeSpec == InitNoFilters /\ [][NextLife]_vars

\* The engine as the notifier of a channel of the bot, which has no command
\* that tears a notifier down.
NextBot ==
    \/ Next
    \/ \E channel \in Channels : UnpauseCommand(channel)
    \/ ConfirmSent
    \/ ConfirmFail

BotSpec == InitNoFilters /\ [][NextBot]_vars

\* ================================================================ claims
Range(s) == {s[i] : i \in 1..Len(s)}

\* What the current run has to deliver: its fetched listings, oldest update
\* first, without those a filter rejects.
Kept == FilterListings(filters, SortByUpdated(fetched))

Idle == pc = "idle"

RemainingFlushed ==
    \E kept \in {Kept} :
        LET n == Len(kept)
            k == delivered
        IN  /\ Len(sink) >= n
            /\ SubSeq(sink, 1, k) = SubSeq(kept, 1, k)
            /\ SubSeq(sink, Len(sink) - (n - k) + 1, Len(sink)) = SubSeq(kept, k + 1, n)

FlushProgress ==
    \E kept \in {Kept} :
        LET n == Len(kept)
            k == delivered
        IN  \E a \in 0..1, m \in 0..(n - k), b \in 0..1 :
                /\ b = 1 => m < n - k
                /\ sink = SubSeq(kept, 1, k)
                            \o (IF a = 1 THEN <<kept[k + 1]>> ELSE <<>>)
                            \o SubSeq(kept, k + 1, k + m)
                            \o (IF b = 1 THEN <<kept[k + m + 1]>> ELSE <<>>)

Matched == {l \in Range(fetched) : should_notify_listing(filters, l) = "yes"}

Count(s, x) == Cardinality({i \in 1..Len(s) : s[i] = x})

C5_SinkOrdered ==
    \A i, j \in 1..Len(sink) : i < j => sink[i].updated_at <= sink[j].updated_at

\* Two searches, the first returned the later-updated listing, both were
\* sent, and the run went through the cancellation flush.
C5_Witness ==
    /\ Idle /\ endedIn = "flush"
    /\ Len(searches) = 2
    /\ Len(fetched) = 2 /\ fetched[1].updated_at > fetched[2].updated_at
    /\ Len(sink) >= 2

\* Every filter whose field the listing has accepts the listing's value.
Accepts(l) ==
    \A k \in 1..Len(filters) :
        filters[k].field \in ListingAttrs => Test(filters[k].filter, l.price) = "T"

\* The filter step of the current run has been applied to `fetched`.
Filtered == pc = "deliver" \/ (Idle /\ endedIn \in {"filter", "deliver", "flush"}) \/ pc = "flush"

\* C6: should_notify_listing is true with no filters, false when a filter
\* whose field the listing has rejects (and none raises), and true exactly
\* when every filter whose field the listing has accepts; a filter on an
\* absent field never rejects.  Stated of every listing a run has put
\* through the filter step; the delivery loop gets exactly the accepted ones.
C6_ShouldNotify ==
    Filtered =>
        /\ \A l \in Range(fetched) :
            LET r == should_notify_listing(filters, l)
                present == {k \in 1..Len(filters) : filters[k].field \in ListingAttrs}
            IN  /\ filters = <<>> => r = "yes"
                /\ r = "yes" <=> Accepts(l)
                /\ ((\E k \in present : Test(filters[k].filter, l.price) = "F")
                     /\ (\A k \in present : Test(filters[k].filter, l.price) # "raise"))
                        => r = "no"
                /\ present = {} => r = "yes"
        /\ pc = "deliver" => Range(listings) = {l \in Range(fetched) : Accepts(l)}

\* A filter on an absent field comes first, a price filter second; of two
\* fetched listings one was rejected and the other goes to the sink.
C6_Witness ==
    /\ pc = "deliver"
    /\ Len(filters) = 2 /\ filters[1].field = "mileage"
    /\ Len(fetched) = 2 /\ Len(listings) = 1

\* A later poll can return the listing again: some search's watermark is
\* still below its creation time.
Refetchable(l) == \E i \in 1..Len(searches) : searches[i].last_notified < l.created_at

\* C7 (as stated): after the sink fails in the delivery loop, every listing
\* not yet delivered is still pending or can be fetched again, so it is not
\* lost.
C7_UndeliveredStayPending ==
    (Idle /\ outcome = "error" /\ endedIn = "deliver") =>
        \A l \in Range(Kept) :
            \/ l \in Range(sink)
            \/ l \in Range(not_yet_notified_listings)
            \/ Refetchable(l)

\* C8 (as stated): after get_listings fails for one search, no listing
\* already fetched in this run for another search is lost: it has been
\* delivered or can be fetched again.
C8_OtherSearchesKeepListings ==
    (Idle /\ outcome = "error" /\ endedIn = "fetch") =>
        \A l \in Range(fetched) : l \in Range(sink) \/ Refetchable(l)

\* C9 (as stated): a filter that raises does not end the run.
C9_FilterErrorDoesNotEndRun ==
    ~(Idle /\ outcome = "error" /\ endedIn = "filter")

C11_SavedIffListingsFound ==
    (Idle /\ outcome # "none") => (saved <=> fetched # <<>>)

\* A step in which the scheduler fires the job: from idle, a run starts (and
\* may end at once when there is nothing to poll or nothing was found).
TickFires ==
    /\ pc = "idle"
    /\ <<pc, sink, fetched, outcome, endedIn, cancels, saved, delivered>>'
            # <<pc, sink, fetched, outcome, endedIn, cancels, saved, delivered>>

\* C12: no tick fires while config.paused is true, whether the engine was
\* constructed paused or pause() was called; ticks need an unpause() first.
C12_NoTickWhilePaused == [][TickFires => ~paused]_vars

\* The engine has run, got a second search and was then paused: no tick
\* fires from here.
C12_Witness ==
    /\ ~removed /\ paused /\ jobPaused
    /\ Idle /\ outcome = "returned" /\ fetched # <<>>
    /\ Len(searches) = 2

\* The specs of the active searches.
ActiveSpecs == {searches[i].spec : i \in 1..Len(searches)}

\* C13 (as stated): cleanup on an engine already torn down does not raise and
\* leaves it removed, with none of its searches registered.
C13_TeardownIdempotent ==
    [][(removed /\ cleanup) =>
            /\ raised' = "none"
            /\ removed'
            /\ ActiveSpecs' \cap registered' = {}]_vars

\* C14: once torn down the engine stays removed and no tick fires, whatever
\* pause(), unpause() or create_search() calls follow.
C14_RemovedIsTerminal == [][removed => (removed' /\ ~TickFires)]_vars

\* After teardown a search was created and unpause() was called (it raised):
\* the engine is still removed.
C14_Witness ==
    /\ removed /\ raised = "unpause" /\ ~paused
    /\ Len(searches) = 2
    /\ registered # {}

\* C15: until teardown every active search's spec is registered with the
\* monitor, from construction on; the teardown step leaves none registered.
C15_RegistrationBookkeeping ==
    [][/\ ~removed => ActiveSpecs \subseteq registered
       /\ ~removed' => ActiveSpecs' \subseteq registered'
       /\ (~removed /\ removed') => ActiveSpecs' \cap registered' = {}]_vars

\* Torn down with two active searches, one from the config and one created
\* later, in the middle of a run: nothing is registered any more.
C15_Witness ==
    /\ removed /\ raised = "none"
    /\ Len(searches) = 2 /\ registered = {}
    /\ pc = "deliver"

\* C16: a run that returns normally has delivered exactly the fetched
\* listings that every applicable filter accepts, once for each time they
\* were fetched, and none that a filter rejects; the delivered sequence is
\* the fetched one sorted then filtered, which equals it filtered then sorted.
C16_DeliveredAreTheFiltered ==
    (Idle /\ outcome = "returned") =>
        /\ \A l \in Range(fetched) \cup Range(sink) :
                Count(sink, l) = IF Accepts(l) THEN Count(fetched, l) ELSE 0
        /\ sink = FilterListings(filters, SortByUpdated(fetched))
        /\ sink = SortByUpdated(FilterListings(filters, fetched))

\* Two listings fetched newest-update first, a filter rejects one of them, and
\* the run has returned after delivering the other.
C16_Witness ==
    /\ Idle /\ outcome = "returned" /\ endedIn = "deliver"
    /\ filters # <<>>
    /\ Len(fetched) = 2 /\ Len(sink) = 1
    /\ fetched[1].updated_at > fetched[2].updated_at

\* A step of the delivery phase: the delivery loop or the flush moves on or ends.
DeliveryStep ==
    /\ pc \in {"deliver", "flush"}
    /\ <<pc, idx, sink, not_yet_notified_listings, outcome, endedIn, cancels, delivered>>'
            # <<pc, idx, sink, not_yet_notified_listings, outcome, endedIn, cancels, delivered>>

\* C17: a step of the delivery phase (a delivery, a sink failure, a
\* cancellation, a step of the flush) leaves the active searches with their
\* watermarks, the filters and the paused flag as they are; the watermark of
\* an existing search changes only while the run is in its fetch phase.
C17_DeliveryLeavesConfig ==
    [][/\ DeliveryStep => UNCHANGED <<searches, filters, paused>>
       /\ (\E i \in 1..Len(searches) :
                searches'[i].last_notified # searches[i].last_notified) => pc = "fetch"]_vars

\* The sink failed after the poll had moved a watermark: the watermark stays.
C17_Witness ==
    /\ Idle /\ outcome = "error" /\ endedIn = "deliver"
    /\ \E i \in 1..Len(searches) : searches[i].last_notified = 2

\* What a call of the engine or of the bot can change of the notifier.
NotifierState == <<searches, filters, paused, jobPaused, removed, registered, raised>>

\* C18: the unpause command's handler leaves the notifier alone until the
\* send of its confirmation has returned, and when it then calls
\* notifier.unpause() the confirmation is in the channel, so whatever a run
\* started by that unpause delivers comes after it; the command on a channel
\* without a notifier answers and leaves the notifier as it is.
C18_ConfirmationBeforeUnpause ==
    [][/\ (botPc = "idle" /\ botPc' = "confirm") => NotifierState' = NotifierState
       /\ (botPc = "confirm" /\ botPc' = "idle" /\ NotifierState' # NotifierState)
            => reply' = "resumed"
       /\ (reply # "sorry" /\ reply' = "sorry") => NotifierState' = NotifierState]_vars

\* A paused notifier was resumed by the command and the run it allowed is
\* delivering: the confirmation is in the channel already.
C18_Witness ==
    /\ reply = "resumed" /\ botPc = "idle"
    /\ ~paused /\ ~jobPaused
    /\ pc = "deliver" /\ sink # <<>>

\* C19: as long as the engine is not torn down, config.paused is true exactly
\* when the job is suspended in the scheduler.
C19_PausedIffSuspended == ~removed => (paused <=> jobPaused)

\* pause() was called while a run was delivering.
C19_Witness ==
    /\ ~removed /\ paused /\ jobPaused
    /\ pc = "deliver" /\ Len(searches) = 2

\* C20 (as stated): a run cancelled once in the delivery loop ends with
\* notify started for every listing that was pending at the cancellation (those
\* delivered before were started in the loop), the one in flight a second time.
C20_EveryPendingStarted ==
    [][(pc = "flush" /\ cancels = 1 /\ pc' = "idle" /\ cancels' = 1) =>
            idx = Len(FlushTargets(not_yet_notified_listings))]_vars

====
